---- MODULE Spec2Model ----
(***************************************************************************)
(* Model of the Tailwind-for-Shopify installer scripts: src/index.js,      *)
(* src/unnamed/part_000 (prompting v3/v4 installer) and                    *)
(* src/unnamed/part_001 (v3 installer with ignore files).                  *)
(*                                                                         *)
(* Text files the scripts search with String.includes / indexOf            *)
(* (layout/theme.liquid, .gitignore, .shopifyignore) are sequences of      *)
(* one-character strings, and the literals of the source are spelled out   *)
(* character by character.  A file is <<>> when absent and <<content>>     *)
(* when present.  Files that are only written or compared as a whole       *)
(* (tailwind.config.js, the CSS entry files) carry a string naming their   *)
(* content.  package.json is a record: its formatting and the parsed       *)
(* keys name, scripts, devDependencies.                                    *)
(***************************************************************************)
EXTENDS Integers, Sequences, FiniteSets, TLC

VARIABLES
    variant,    \* which script runs: "index", "part_000" or "part_001"
    version,    \* the Tailwind version of the run: "3", "4" or "?" (not yet asked)
    pc,         \* position of the process in installTailwindCSS
    run,        \* number of the current invocation on this directory
    exitCode,   \* process exit status, -1 while running
    fs,         \* the working directory: path -> <<>> or <<content>>
    fs0,        \* the directory as it was when the current call/run started
    writes,     \* paths written (writeFileSync/appendFileSync/mkdirSync) in this run, in order
    out,        \* outcome messages echoed in this run, in order
    npmLog,     \* shell.exec calls of this run: [cmd, code]
    pkgPre,     \* package.json as read by the build-script step of this run
    prev        \* <<>> or <<record of the previous run>>

vars == <<variant, version, pc, run, exitCode, fs, fs0, writes, out, npmLog, pkgPre, prev>>

----------------------------------------------------------------------------
(* Bounds *)

\* pieces concatenated to build a theme.liquid input (function-level checks)
MaxPieces == 4

\* pieces concatenated to build a theme.liquid input of a whole install
MaxInstallPieces == 2

\* extra pieces after the chosen required lines of an ignore-file input
MaxTail == 2

\* invocations of the installer in a row on one directory
MaxRuns == 2

\* calls in a row of a single function (function-level checks)
MaxCalls == 2

----------------------------------------------------------------------------
(* Literals of the source, as character sequences *)

LinkOpen ==
    <<"{","{"," ","'">>

CssFileV3 ==
    <<"t","a","i","l","w","i","n","d",".","c","s","s">>

CssFileV4 ==
    <<"t","a","i","l","w","i","n","d","-","o","u","t","p","u","t",".","c",
      "s","s">>

LinkClose ==
    <<"'"," ","|"," ","a","s","s","e","t","_","u","r","l"," ","|"," ","s",
      "t","y","l","e","s","h","e","e","t","_","t","a","g"," ","}","}">>

HeadClose ==
    <<"<","/","h","e","a","d",">">>

IndexLinkPrefix ==
    <<"\n"," "," ","\"">>

IndexLinkSuffix ==
    <<"\"","\n"," "," "," "," "," "," ">>

Part001LinkPrefix ==
    <<"\n"," "," "," "," "," "," "," "," ">>

Part001LinkSuffix ==
    <<"\n"," "," "," "," "," "," ">>

GitLine1 ==
    <<".","D","S","_","S","t","o","r","e">>

GitLine2 ==
    <<"n","o","d","e","_","m","o","d","u","l","e","s">>

GitLine3 ==
    <<"p","a","c","k","a","g","e","-","l","o","c","k",".","j","s","o","n">>

GitLine4 ==
    <<".","e","n","v">>

GitLine5 ==
    <<"/",".","i","d","e","a">>

ShopLine1 ==
    <<"p","a","c","k","a","g","e",".","j","s","o","n">>

ShopLine2 ==
    <<"p","a","c","k","a","g","e","-","l","o","c","k",".","j","s","o","n">>

ShopLine3 ==
    <<"t","a","i","l","w","i","n","d",".","c","o","n","f","i","g",".","j",
      "s">>

ShopLine4 ==
    <<"t","a","i","l","w","i","n","d","-","c","o","n","f","i","g",".","c",
      "s","s">>

ShopLine5 ==
    <<"h","t","m","l","-","r","e","f",".","h","t","m","l">>

BlockTail ==
    <<"\n"," "," "," "," "," "," ">>

V4IgnoreContent ==
    <<"\n","p","a","c","k","a","g","e",".","j","s","o","n","\n"," "," ">>

----------------------------------------------------------------------------
(* JavaScript string operations on character sequences *)

\* String.prototype.includes
Includes(s, sub) ==
    \/ Len(sub) = 0
    \/ \E i \in 0..(Len(s) - Len(sub)) :
          s[i + 1] = sub[1] /\ SubSeq(s, i + 1, i + Len(sub)) = sub

\* the start offsets (0-based) at which sub occurs in s
Occurrences(s, sub) ==
    {i \in 0..(Len(s) - Len(sub)) : SubSeq(s, i + 1, i + Len(sub)) = sub}

\* number of occurrences of sub in s (overlapping ones counted)
Count(s, sub) == Cardinality(Occurrences(s, sub))

\* String.prototype.indexOf: offset of the first occurrence, or -1
IndexOf(s, sub) ==
    IF Occurrences(s, sub) = {} THEN -1
    ELSE CHOOSE i \in Occurrences(s, sub) : \A j \in Occurrences(s, sub) : i <= j

\* faulty variant: a negative index is taken as 0, not counted from the end
ClampIndex_NoNegative(s, k) ==
    IF k < 0 THEN 0 ELSE (IF k > Len(s) THEN Len(s) ELSE k)

\* how String.prototype.slice turns an index into an offset in 0..Len(s)
ClampIndex(s, k) ==
    IF k < 0 THEN (IF Len(s) + k < 0 THEN 0 ELSE Len(s) + k)
    ELSE (IF k > Len(s) THEN Len(s) ELSE k)

\* String.prototype.slice(from, to)
Slice(s, from, to) == SubSeq(s, ClampIndex(s, from) + 1, ClampIndex(s, to))

\* String.prototype.slice(from)
SliceFrom(s, from) == SubSeq(s, ClampIndex(s, from) + 1, Len(s))

\* whitespace characters String.prototype.trim removes (those the inputs use)
IsSpace(c) == c \in {" ", "\n"}

RECURSIVE TrimStart(_)
TrimStart(s) ==
    IF s # <<>> /\ IsSpace(Head(s)) THEN TrimStart(Tail(s)) ELSE s

RECURSIVE TrimEnd(_)
TrimEnd(s) ==
    IF s # <<>> /\ IsSpace(s[Len(s)]) THEN TrimEnd(SubSeq(s, 1, Len(s) - 1)) ELSE s

\* String.prototype.trim
Trim(s) == TrimEnd(TrimStart(s))

\* the members of a sequence
Range(q) == {q[i] : i \in DOMAIN q}

\* concatenation of a sequence of character sequences
RECURSIVE Concat(_)
Concat(ss) == IF ss = <<>> THEN <<>> ELSE Head(ss) \o Concat(Tail(ss))

----------------------------------------------------------------------------
(* The working directory *)

THEME == "layout/theme.liquid"
PKG == "package.json"
CONFIG == "tailwind.config.js"
CSS == "tailwind-config.css"
ASSETS == "assets"
ASSETS_CSS == "assets/tailwind-config.css"
GITIGNORE == ".gitignore"
SHOPIFYIGNORE == ".shopifyignore"

Paths == {THEME, PKG, CONFIG, CSS, ASSETS, ASSETS_CSS, GITIGNORE, SHOPIFYIGNORE}

\* fs.existsSync
Exists(dir, path) == dir[path] # <<>>

\* fs.readFileSync
Read(dir, path) == dir[path][1]

\* the effects of a function on the outside: directory, write log, messages
World == [fs |-> fs, writes |-> writes, out |-> out]

\* fs.writeFileSync: the whole file is replaced
WriteFile(w, path, data) ==
    [w EXCEPT !.fs = [@ EXCEPT ![path] = <<data>>],
              !.writes = Append(@, path)]

\* fs.appendFileSync: data goes after the present content (the file is created if absent)
AppendFile(w, path, data) ==
    [w EXCEPT !.fs = [@ EXCEPT ![path] = IF @ = <<>> THEN <<data>> ELSE <<@[1] \o data>>],
              !.writes = Append(@, path)]

\* fs.mkdirSync
MkDir(w, path) ==
    [w EXCEPT !.fs = [@ EXCEPT ![path] = <<"dir">>],
              !.writes = Append(@, path)]

\* shell.echo of a message, named by its outcome
Echo(w, msg) == [w EXCEPT !.out = Append(@, msg)]

----------------------------------------------------------------------------
(* isShopifyProject *)

\* faulty variant: every directory passes
IsShopifyProject_NoCheck(dir) == TRUE

IsShopifyProject(dir) == Exists(dir, THEME)

----------------------------------------------------------------------------
(* addTailwindToThemeLiquid *)

\* cssFile of part_000; index.js and part_001 name tailwind.css in the literal
CssFile(var, ver) ==
    IF var = "part_000" /\ ver # "3" THEN CssFileV4 ELSE CssFileV3

\* the text whose presence is tested with includes()
LinkFragment(var, ver) == LinkOpen \o CssFile(var, ver) \o LinkClose

\* the text inserted (linkTag)
LinkTag(var, ver) ==
    CASE var = "index"    -> IndexLinkPrefix \o LinkFragment(var, ver) \o IndexLinkSuffix
      [] var = "part_001" -> Part001LinkPrefix \o LinkFragment(var, ver) \o Part001LinkSuffix
      [] var = "part_000" -> LinkFragment(var, ver)

\* faulty variant: the link is taken to be missing whatever the file holds
LinkMissing_Always(themeLiquid, fragment) == TRUE

\* the condition of the insertion: !themeLiquid.includes(fragment)
LinkMissing(themeLiquid, fragment) == ~Includes(themeLiquid, fragment)

\* faulty variant: the insertion point is the last "</head>", not the first
InsertLink_BeforeLast(themeLiquid, linkTag) ==
    LET at == Occurrences(themeLiquid, HeadClose)
        headEndIndex == IF at = {} THEN -1 ELSE CHOOSE i \in at : \A j \in at : j <= i
    IN  Slice(themeLiquid, 0, headEndIndex) \o linkTag \o SliceFrom(themeLiquid, headEndIndex)

\* slice(0, headEndIndex) + linkTag + slice(headEndIndex)
InsertLink(themeLiquid, linkTag) ==
    LET headEndIndex == IndexOf(themeLiquid, HeadClose)
    IN  Slice(themeLiquid, 0, headEndIndex) \o linkTag \o SliceFrom(themeLiquid, headEndIndex)

\* faulty variant: the presence test looks for the inserted linkTag, not for the fragment
AddTailwindToThemeLiquid_TestsTag(var, ver, w) ==
    IF Exists(w.fs, THEME)
    THEN LET themeLiquid == Read(w.fs, THEME)
         IN  IF LinkMissing(themeLiquid, LinkTag(var, ver))
             THEN Echo(WriteFile(w, THEME, InsertLink(themeLiquid, LinkTag(var, ver))),
                       "theme: link added")
             ELSE Echo(w, "theme: link already exists")
    ELSE Echo(w, "theme: not found")

AddTailwindToThemeLiquid(var, ver, w) ==
    IF Exists(w.fs, THEME)
    THEN LET themeLiquid == Read(w.fs, THEME)
         IN  IF LinkMissing(themeLiquid, LinkFragment(var, ver))
             THEN Echo(WriteFile(w, THEME, InsertLink(themeLiquid, LinkTag(var, ver))),
                       "theme: link added")
             ELSE Echo(w, "theme: link already exists")
    ELSE Echo(w, "theme: not found")

----------------------------------------------------------------------------
(* createGitIgnore / createShopifyIgnore *)

GitLines == <<GitLine1, GitLine2, GitLine3, GitLine4, GitLine5>>

ShopifyLines == <<ShopLine1, ShopLine2, ShopLine3, ShopLine4, ShopLine5>>

\* the template literal written and appended: a newline, the five lines, the closing indent
Block(lines) ==
    <<"\n">> \o lines[1] \o <<"\n">> \o lines[2] \o <<"\n">> \o lines[3] \o <<"\n">>
             \o lines[4] \o <<"\n">> \o lines[5] \o BlockTail

\* faulty variant: the block is looked for as a whole, not line by line
NeedsUpdate_WholeBlock(content, lines) == ~Includes(content, Block(lines))

\* !includes(l1) || !includes(l2) || ... : some required line is missing
NeedsUpdate(content, lines) ==
    \E k \in 1..Len(lines) : ~Includes(content, lines[k])

\* faulty variant: the literal written to a new file lacks the last required line
NewFileContent_Short(lines) ==
    <<"\n">> \o lines[1] \o <<"\n">> \o lines[2] \o <<"\n">> \o lines[3] \o <<"\n">>
             \o lines[4] \o BlockTail

\* the template literal written to a new file: the same text as the appended block
NewFileContent(lines) == Block(lines)

\* first half of both functions: write the block when the file is absent
CreateIfAbsent(w, path, lines) ==
    IF ~Exists(w.fs, path)
    THEN Echo(WriteFile(Echo(w, "ignore: creating"), path, NewFileContent(lines)),
              "ignore: created")
    ELSE Echo(w, "ignore: already exists")

\* faulty variant: only the missing lines are appended
UpdateIfNeeded_OnlyMissing(w, path, lines) ==
    LET content == Read(w.fs, path)
        missing == SelectSeq(lines, LAMBDA l : ~Includes(content, l))
    IN  IF NeedsUpdate(content, lines)
        THEN Echo(AppendFile(Echo(w, "ignore: updating"), path,
                             Concat([k \in 1..Len(missing) |-> <<"\n">> \o missing[k]])),
                  "ignore: updated")
        ELSE w

\* second half of both functions: re-read, append the whole block when a line is missing
UpdateIfNeeded(w, path, lines) ==
    LET content == Read(w.fs, path)
    IN  IF NeedsUpdate(content, lines)
        THEN Echo(AppendFile(Echo(w, "ignore: updating"), path, Block(lines)),
                  "ignore: updated")
        ELSE w

CreateGitIgnore(w) ==
    UpdateIfNeeded(CreateIfAbsent(w, GITIGNORE, GitLines), GITIGNORE, GitLines)

CreateShopifyIgnore(w) ==
    UpdateIfNeeded(CreateIfAbsent(w, SHOPIFYIGNORE, ShopifyLines), SHOPIFYIGNORE, ShopifyLines)

----------------------------------------------------------------------------
(* package.json *)

TailwindCmdV3 == "npx tailwindcss -i ./tailwind-config.css -o ./assets/tailwind.css --watch"

TailwindCmdV4 ==
    "npx @tailwindcss/cli -i ./assets/tailwind-config.css -o ./assets/tailwind-output.css --watch"

\* the command the call site assigns to scripts.tailwind
BuildCommand(var, ver) ==
    IF var = "part_000" /\ ver = "4" THEN TailwindCmdV4 ELSE TailwindCmdV3

NoEntries == [k \in {} |-> ""]

\* JSON.parse: the formatting of the file is dropped, the keys are kept
JsonParse(file) == file.json

\* JSON.stringify(value, null, 2): the keys, indented by two spaces
JsonStringify(value) == [fmt |-> "indent2", json |-> value]

\* truthiness of packageJson.scripts: an object is truthy, undefined and null are not
ScriptsTruthy(scripts) == scripts.kind = "object"

\* truthiness of packageJson.scripts[name]: a missing entry and "" are falsy
EntryTruthy(scripts, name) ==
    name \in DOMAIN scripts.entries /\ scripts.entries[name] # ""

\* faulty variant: the entry is tested for presence, not for truthiness
ShouldSetScript_KeyAbsent(var, packageJson) ==
    \/ var = "part_000"
    \/ packageJson.scripts.kind # "object"
    \/ "tailwind" \notin DOMAIN packageJson.scripts.entries

\* part_000 assigns always; index.js and part_001 only under
\* !packageJson.scripts || !packageJson.scripts.tailwind
ShouldSetScript(var, packageJson) ==
    \/ var = "part_000"
    \/ ~ScriptsTruthy(packageJson.scripts)
    \/ ~EntryTruthy(packageJson.scripts, "tailwind")

\* faulty variant: the scripts mapping is replaced, its other entries are lost
WithTailwindScript_Fresh(packageJson, command) ==
    [packageJson EXCEPT !.scripts =
        [kind |-> "object", entries |-> [k \in {"tailwind"} |-> command]]]

\* packageJson.scripts = packageJson.scripts || {}; packageJson.scripts.tailwind = command
WithTailwindScript(packageJson, command) ==
    LET old == IF ScriptsTruthy(packageJson.scripts)
               THEN packageJson.scripts.entries ELSE NoEntries
    IN  [packageJson EXCEPT !.scripts =
            [kind |-> "object",
             entries |-> [k \in DOMAIN old \cup {"tailwind"} |->
                            IF k = "tailwind" THEN command ELSE old[k]]]]

\* the build-script step of installTailwindCSS / installTailwindV3 / installTailwindV4
SetBuildScript(var, ver, w) ==
    LET packageJson == JsonParse(Read(w.fs, PKG))
        written == WriteFile(w, PKG,
                       JsonStringify(WithTailwindScript(packageJson, BuildCommand(var, ver))))
    IN  IF ShouldSetScript(var, packageJson)
        THEN IF var = "part_000" /\ ver = "3" THEN written
             ELSE Echo(written, "script: added")
        ELSE Echo(w, "script: already exists")

----------------------------------------------------------------------------
(* npm, the external command *)

NpmInitCmd == "npm init -y"

NpmInstallCmd(var, ver) ==
    CASE var = "index" -> "npm install -D tailwindcss postcss autoprefixer"
      [] var = "part_001" \/ (var = "part_000" /\ ver = "3") ->
            "npm install -D tailwindcss@3.4.15 postcss autoprefixer"
      [] OTHER -> "npm install -D tailwindcss @tailwindcss/cli"

\* exit codes shell.exec(...).code can report
ExitCodes == {0, 1}

\* faulty variant: the exit code is not looked at
ExecFailed_Never(code) == FALSE

\* shell.exec(cmd).code !== 0
ExecFailed(code) == code # 0

\* package.json as a successful "npm init -y" leaves it
NpmInitManifest ==
    [fmt |-> "indent2",
     json |-> [name |-> "theme",
               scripts |-> [kind |-> "object",
                            entries |-> [k \in {"test"} |-> "echo \"Error: no test specified\" && exit 1"]],
               devDependencies |-> {}]]

\* packages a successful install saves to devDependencies
InstalledPackages(var, ver) ==
    IF var = "part_000" /\ ver = "4" THEN {"tailwindcss", "@tailwindcss/cli"}
    ELSE {"tailwindcss", "postcss", "autoprefixer"}

\* package.json after a successful "npm install -D ..."
NpmInstallManifest(file, var, ver) ==
    [file EXCEPT !.json.devDependencies = @ \cup InstalledPackages(var, ver)]

----------------------------------------------------------------------------
(* generated files *)

\* customConfig, the text written to tailwind.config.js
ConfigTemplate == "/** @type {import('tailwindcss').Config} */ module.exports = {...prefix: 'tw-'}"

\* the text written to tailwind-config.css
CssTemplateV3 == "@tailwind base; @tailwind components; @tailwind utilities;"

\* configContent, the text written to assets/tailwind-config.css
CssTemplateV4 == "@import 'tailwindcss' prefix(tw); @theme {...}"

\* fs.writeFileSync(configFilePath, customConfig), unconditional
WriteConfig(w) ==
    Echo(WriteFile(Echo(w, "config: generating"), CONFIG, ConfigTemplate), "config: created")

\* faulty variant: the file is written whether or not it exists
WriteCssEntry_Always(w) ==
    Echo(WriteFile(w, CSS, CssTemplateV3), "css: created")

\* tailwind-config.css is written only when it does not exist
WriteCssEntry(w) ==
    IF ~Exists(w.fs, CSS)
    THEN Echo(WriteFile(w, CSS, CssTemplateV3), "css: created")
    ELSE Echo(w, "css: already exists")

\* installTailwindV4: package.json is added to .shopifyignore
WriteV4Ignore(w) ==
    Echo(IF Exists(w.fs, SHOPIFYIGNORE)
         THEN LET currentContent == Read(w.fs, SHOPIFYIGNORE)
              IN  IF ~Includes(currentContent, ShopLine1)
                  THEN WriteFile(w, SHOPIFYIGNORE, currentContent \o V4IgnoreContent)
                  ELSE w
         ELSE WriteFile(w, SHOPIFYIGNORE, V4IgnoreContent),
         "v4: shopifyignore updated")

\* installTailwindV4: the assets directory is created if it does not exist
MakeAssetsDir(w) == IF ~Exists(w.fs, ASSETS) THEN MkDir(w, ASSETS) ELSE w

\* installTailwindV4: fs.writeFileSync(configPath, configContent), unconditional
WriteV4Css(w) == Echo(WriteFile(w, ASSETS_CSS, CssTemplateV4), "v4: css created")

HeadOpen ==
    <<"<","h","e","a","d",">">>

NearLinkClose ==
    <<"'"," ","|"," ","a","s","s","e","t","_","u","r","l"," ","|"," ","s",
      "t","y","l","e","s","h","e","e","t","_","t","a","g"," ","}">>

EnvLocal ==
    <<".","e","n","v",".","l","o","c","a","l">>

MyPackageJson ==
    <<"m","y","-","p","a","c","k","a","g","e",".","j","s","o","n">>

----------------------------------------------------------------------------
(* Inputs: the directories an install starts from *)

Variants == {"index", "part_000", "part_001"}

\* all sequences of at most n members of S
RECURSIVE SeqsUpTo(_, _)
SeqsUpTo(S, n) ==
    IF n = 0 THEN {<<>>}
    ELSE LET shorter == SeqsUpTo(S, n - 1)
         IN  shorter \cup {Append(q, x) : q \in shorter, x \in S}

\* building blocks of theme.liquid inputs: the head tags, both link fragments,
\* a link fragment cut before its last character, and that character
ThemePieces ==
    {HeadOpen, HeadClose,
     LinkOpen \o CssFileV3 \o LinkClose,
     LinkOpen \o CssFileV4 \o LinkClose,
     LinkOpen \o CssFileV3 \o NearLinkClose,
     <<"}">>}

Themes(n) == {Concat(q) : q \in SeqsUpTo(ThemePieces, n)}

\* a theme.liquid with a head section and no link
DefaultTheme == HeadOpen \o HeadClose

UserText == "user content"

UserCommand == "user command"

ScriptNames == {"test", "tailwind"}

\* commands a script entry may hold before the install, "" among them
Commands == {"", UserCommand}

ScriptsInputs ==
    {[kind |-> "absent", entries |-> NoEntries], [kind |-> "null", entries |-> NoEntries]}
    \cup {[kind |-> "object", entries |-> e] :
            e \in UNION {[names -> Commands] : names \in SUBSET ScriptNames}}

ManifestInputs ==
    {[fmt |-> f, json |-> [name |-> "theme", scripts |-> s, devDependencies |-> {}]] :
        f \in {"indent2", "other"}, s \in ScriptsInputs}

\* a theme directory with nothing installed
BaseDir ==
    [p \in Paths |-> IF p = THEME THEN <<DefaultTheme>> ELSE <<>>]

\* contents of an ignore file before an install
IgnoreSamples(lines) == {<<>>, << <<>> >>, <<Block(lines)>>, <<lines[4] \o <<"\n">> >>}

\* directories that differ from BaseDir in one group of files
ThemeDirs ==
    {[BaseDir EXCEPT ![THEME] = t] : t \in {<<>>} \cup {<<x>> : x \in Themes(MaxInstallPieces)}}

ManifestDirs == {[BaseDir EXCEPT ![PKG] = <<m>>] : m \in ManifestInputs}

GeneratedDirs ==
    {[BaseDir EXCEPT ![CONFIG] = c, ![CSS] = s, ![ASSETS] = a[1], ![ASSETS_CSS] = a[2]] :
        c \in {<<>>, <<UserText>>, <<ConfigTemplate>>},
        s \in {<<>>, <<UserText>>},
        a \in {<< <<>>, <<>> >>, << <<"dir">>, <<>> >>, << <<"dir">>, <<UserText>> >>}}

IgnoreDirs ==
    {[BaseDir EXCEPT ![GITIGNORE] = g, ![SHOPIFYIGNORE] = s] :
        g \in IgnoreSamples(GitLines), s \in IgnoreSamples(ShopifyLines)}

InstallDirs == ThemeDirs \cup ManifestDirs \cup GeneratedDirs \cup IgnoreDirs

\* what the user may type at the version prompt
Answers == {<<"3">>, <<"4">>, <<" ", "4", "\n">>, <<"5">>, <<>>}

----------------------------------------------------------------------------
(* The installer process *)

\* index.js and part_001 install v3 only; part_000 asks
InitialVersion(var) == IF var = "part_000" THEN "?" ELSE "3"

Init ==
    /\ variant \in Variants
    /\ version = InitialVersion(variant)
    /\ pc = "node"
    /\ run = 1
    /\ exitCode = -1
    /\ fs \in InstallDirs
    /\ fs0 = fs
    /\ writes = <<>>
    /\ out = <<>>
    /\ npmLog = <<>>
    /\ pkgPre = <<>>
    /\ prev = <<>>

\* shell.exit(code)
Exit(code) == pc' = "exited" /\ exitCode' = code

Commit(w) == fs' = w.fs /\ writes' = w.writes /\ out' = w.out

\* if (!shell.which("node")) { ...; shell.exit(1) }
CheckNode ==
    /\ pc = "node"
    /\ \E nodeOnPath \in BOOLEAN :
          IF nodeOnPath
          THEN pc' = "project" /\ UNCHANGED <<exitCode, out>>
          ELSE Exit(1) /\ out' = Append(out, "node: not installed")
    /\ UNCHANGED <<variant, version, run, fs, fs0, writes, npmLog, pkgPre, prev>>

\* if (!isShopifyProject()) { ...; shell.exit(1) }
CheckProject ==
    /\ pc = "project"
    /\ IF IsShopifyProject(fs)
       THEN pc' = "npmInit" /\ UNCHANGED <<exitCode, out>>
       ELSE Exit(1) /\ out' = Append(out, "project: not a Shopify project")
    /\ UNCHANGED <<variant, version, run, fs, fs0, writes, npmLog, pkgPre, prev>>

\* if (!fs.existsSync("package.json")) { if (shell.exec("npm init -y").code !== 0) shell.exit(1) }
\* npm creates package.json when it reports 0 and leaves the directory alone otherwise
NpmInit ==
    /\ pc = "npmInit"
    /\ IF Exists(fs, PKG)
       THEN /\ pc' = IF variant = "part_000" THEN "prompt" ELSE "install"
            /\ UNCHANGED <<exitCode, fs, out, npmLog>>
       ELSE \E code \in ExitCodes :
            /\ npmLog' = Append(npmLog, [cmd |-> NpmInitCmd, code |-> code])
            /\ IF ExecFailed(code)
               THEN Exit(1) /\ out' = Append(out, "npm: init failed") /\ UNCHANGED fs
               ELSE /\ pc' = IF variant = "part_000" THEN "prompt" ELSE "install"
                    /\ fs' = [fs EXCEPT ![PKG] = IF code = 0 THEN <<NpmInitManifest>> ELSE @]
                    /\ UNCHANGED <<exitCode, out>>
    /\ UNCHANGED <<variant, version, run, fs0, writes, pkgPre, prev>>

\* promptForVersion: asks again until the trimmed answer is "3" or "4"
Prompt ==
    /\ pc = "prompt"
    /\ \E answer \in Answers :
          IF Trim(answer) \in {<<"3">>, <<"4">>}
          THEN /\ version' = Trim(answer)[1]
               /\ pc' = "install"
          ELSE UNCHANGED <<version, pc>>
    /\ UNCHANGED <<variant, run, exitCode, fs, fs0, writes, out, npmLog, pkgPre, prev>>

\* if (shell.exec("npm install -D ...").code !== 0) { ...; shell.exit(1) }
\* npm saves the packages to devDependencies when it reports 0
NpmInstall ==
    /\ pc = "install"
    /\ \E code \in ExitCodes :
          /\ npmLog' = Append(npmLog, [cmd |-> NpmInstallCmd(variant, version), code |-> code])
          /\ IF ExecFailed(code)
             THEN Exit(1) /\ out' = Append(out, "npm: install failed") /\ UNCHANGED fs
             ELSE /\ pc' = IF version = "4" THEN "v4ignore" ELSE "config"
                  /\ fs' = [fs EXCEPT ![PKG] =
                               IF code = 0 /\ @ # <<>>
                               THEN <<NpmInstallManifest(@[1], variant, version)>> ELSE @]
                  /\ UNCHANGED <<exitCode, out>>
    /\ UNCHANGED <<variant, version, run, fs0, writes, pkgPre, prev>>

GenerateConfig ==
    /\ pc = "config"
    /\ Commit(WriteConfig(World))
    /\ pc' = "css"
    /\ UNCHANGED <<variant, version, run, exitCode, fs0, npmLog, pkgPre, prev>>

CreateCssEntry ==
    /\ pc = "css"
    /\ Commit(WriteCssEntry(World))
    /\ pc' = "script"
    /\ UNCHANGED <<variant, version, run, exitCode, fs0, npmLog, pkgPre, prev>>

V4ShopifyIgnore ==
    /\ pc = "v4ignore"
    /\ Commit(WriteV4Ignore(World))
    /\ pc' = "assets"
    /\ UNCHANGED <<variant, version, run, exitCode, fs0, npmLog, pkgPre, prev>>

V4AssetsDir ==
    /\ pc = "assets"
    /\ Commit(MakeAssetsDir(World))
    /\ pc' = "v4css"
    /\ UNCHANGED <<variant, version, run, exitCode, fs0, npmLog, pkgPre, prev>>

V4CssEntry ==
    /\ pc = "v4css"
    /\ Commit(WriteV4Css(World))
    /\ pc' = "script"
    /\ UNCHANGED <<variant, version, run, exitCode, fs0, npmLog, pkgPre, prev>>

AddBuildScript ==
    /\ pc = "script"
    /\ pkgPre' = fs[PKG]
    /\ Commit(SetBuildScript(variant, version, World))
    /\ pc' = "theme"
    /\ UNCHANGED <<variant, version, run, exitCode, fs0, npmLog, prev>>

\* index.js and installTailwindV4 end after the template; the others reconcile ignore files
PatchTheme ==
    /\ pc = "theme"
    /\ Commit(AddTailwindToThemeLiquid(variant, version, World))
    /\ pc' = IF variant = "index" \/ version = "4" THEN "done" ELSE "gitignore"
    /\ UNCHANGED <<variant, version, run, exitCode, fs0, npmLog, pkgPre, prev>>

GitIgnore ==
    /\ pc = "gitignore"
    /\ Commit(CreateGitIgnore(World))
    /\ pc' = "shopifyignore"
    /\ UNCHANGED <<variant, version, run, exitCode, fs0, npmLog, pkgPre, prev>>

ShopifyIgnore ==
    /\ pc = "shopifyignore"
    /\ Commit(CreateShopifyIgnore(World))
    /\ pc' = "done"
    /\ UNCHANGED <<variant, version, run, exitCode, fs0, npmLog, pkgPre, prev>>

\* the closing messages; the process then ends with status 0
Finish ==
    /\ pc = "done"
    /\ out' = Append(out, "installed")
    /\ Exit(0)
    /\ UNCHANGED <<variant, version, run, fs, fs0, writes, npmLog, pkgPre, prev>>

\* the installer is invoked again on the directory as the last run left it
Rerun ==
    /\ pc = "exited"
    /\ run < MaxRuns
    /\ run' = run + 1
    /\ prev' = <<[fs0 |-> fs0, fs |-> fs, version |-> version, exitCode |-> exitCode]>>
    /\ version' = InitialVersion(variant)
    /\ pc' = "node"
    /\ exitCode' = -1
    /\ fs0' = fs
    /\ writes' = <<>>
    /\ out' = <<>>
    /\ npmLog' = <<>>
    /\ pkgPre' = <<>>
    /\ UNCHANGED <<variant, fs>>

Next ==
    \/ CheckNode
    \/ CheckProject
    \/ NpmInit
    \/ Prompt
    \/ NpmInstall
    \/ GenerateConfig
    \/ CreateCssEntry
    \/ V4ShopifyIgnore
    \/ V4AssetsDir
    \/ V4CssEntry
    \/ AddBuildScript
    \/ PatchTheme
    \/ GitIgnore
    \/ ShopifyIgnore
    \/ Finish
    \/ Rerun

Spec == Init /\ [][Next]_vars

----------------------------------------------------------------------------
(* addTailwindToThemeLiquid on its own: called on a template, then called again *)

\* the versions a variant calls addTailwindToThemeLiquid with
VersionsOf(var) == IF var = "part_000" THEN {"3", "4"} ELSE {"3"}

InitTheme ==
    /\ variant \in Variants
    /\ version \in VersionsOf(variant)
    /\ pc = "call"
    /\ run = 1
    /\ exitCode = -1
    /\ fs \in {[BaseDir EXCEPT ![THEME] = t] :
                  t \in {<<>>} \cup {<<x>> : x \in Themes(MaxPieces)}}
    /\ fs0 = fs
    /\ writes = <<>>
    /\ out = <<>>
    /\ npmLog = <<>>
    /\ pkgPre = <<>>
    /\ prev = <<>>

ThemeCall ==
    /\ pc = "call"
    /\ Commit(AddTailwindToThemeLiquid(variant, version, World))
    /\ pc' = "returned"
    /\ UNCHANGED <<variant, version, run, exitCode, fs0, npmLog, pkgPre, prev>>

ThemeCallAgain ==
    /\ pc = "returned"
    /\ run < MaxCalls
    /\ run' = run + 1
    /\ pc' = "call"
    /\ fs0' = fs
    /\ writes' = <<>>
    /\ out' = <<>>
    /\ UNCHANGED <<variant, version, exitCode, fs, npmLog, pkgPre, prev>>

NextTheme == ThemeCall \/ ThemeCallAgain

SpecTheme == InitTheme /\ [][NextTheme]_vars

----------------------------------------------------------------------------
(* createGitIgnore / createShopifyIgnore on their own (part_000, part_001) *)

\* the required lines chosen by keep, each on a line of its own
KeptLines(lines, keep) ==
    Concat([k \in 1..Len(lines) |-> IF k \in keep THEN lines[k] \o <<"\n">> ELSE <<>>])

\* an entry that is not required but has a required line inside it, and the block itself
TailPieces(lines) ==
    {(IF lines = GitLines THEN EnvLocal ELSE MyPackageJson) \o <<"\n">>, Block(lines)}

\* contents of an existing ignore file: some required lines, then other text
IgnoreInputs(lines) ==
    {KeptLines(lines, keep) \o Concat(t) :
        keep \in SUBSET (1..Len(lines)), t \in SeqsUpTo(TailPieces(lines), MaxTail)}

InitIgnore ==
    /\ variant \in {"part_000", "part_001"}
    /\ version = "3"
    /\ \/ /\ pc = "callGit"
          /\ fs \in {[BaseDir EXCEPT ![GITIGNORE] = c] :
                        c \in {<<>>} \cup {<<x>> : x \in IgnoreInputs(GitLines)}}
       \/ /\ pc = "callShopify"
          /\ fs \in {[BaseDir EXCEPT ![SHOPIFYIGNORE] = c] :
                        c \in {<<>>} \cup {<<x>> : x \in IgnoreInputs(ShopifyLines)}}
    /\ run = 1
    /\ exitCode = -1
    /\ fs0 = fs
    /\ writes = <<>>
    /\ out = <<>>
    /\ npmLog = <<>>
    /\ pkgPre = <<>>
    /\ prev = <<>>

GitIgnoreCall ==
    /\ pc = "callGit"
    /\ Commit(CreateGitIgnore(World))
    /\ pc' = "returnedGit"
    /\ UNCHANGED <<variant, version, run, exitCode, fs0, npmLog, pkgPre, prev>>

ShopifyIgnoreCall ==
    /\ pc = "callShopify"
    /\ Commit(CreateShopifyIgnore(World))
    /\ pc' = "returnedShopify"
    /\ UNCHANGED <<variant, version, run, exitCode, fs0, npmLog, pkgPre, prev>>

IgnoreCallAgain ==
    /\ pc \in {"returnedGit", "returnedShopify"}
    /\ run < MaxCalls
    /\ run' = run + 1
    /\ pc' = IF pc = "returnedGit" THEN "callGit" ELSE "callShopify"
    /\ fs0' = fs
    /\ writes' = <<>>
    /\ out' = <<>>
    /\ UNCHANGED <<variant, version, exitCode, fs, npmLog, pkgPre, prev>>

NextIgnore == GitIgnoreCall \/ ShopifyIgnoreCall \/ IgnoreCallAgain

SpecIgnore == InitIgnore /\ [][NextIgnore]_vars

----------------------------------------------------------------------------
(* Properties *)

\* the parsed scripts mapping of the package.json of a directory
ScriptsOf(dir) == JsonParse(Read(dir, PKG)).scripts

\* the current run and the one before it both ended with status 0 on the same version
TwoFullInstalls ==
    /\ pc = "exited" /\ exitCode = 0
    /\ prev # <<>> /\ prev[1].exitCode = 0 /\ prev[1].version = version

\* C1: after two full installs in a row (same script, same version, every npm
\* command succeeding) the scripts mapping of package.json is what the first
\* install left, and a template that did not hold the link fragment before the
\* first install holds it exactly once.
C1_InstallTwiceIdempotent ==
    TwoFullInstalls =>
        /\ ScriptsOf(fs) = ScriptsOf(prev[1].fs)
        /\ ~Includes(Read(prev[1].fs0, THEME), LinkFragment(variant, version))
              => Count(Read(fs, THEME), LinkFragment(variant, version)) = 1

\* two full installs on a template without the fragment and without "</head>",
\* the first of which created package.json and its tailwind script
C1_Witness ==
    /\ TwoFullInstalls
    /\ ~Includes(Read(prev[1].fs0, THEME), LinkFragment(variant, version))
    /\ ~Includes(Read(prev[1].fs0, THEME), HeadClose)
    /\ ~Exists(prev[1].fs0, PKG)
    /\ writes = <<CONFIG>>

\* C2: a run that starts without layout/theme.liquid never gets past the project
\* check: it changes no file, writes nothing, runs no npm command, and when it
\* has ended its status is 1 and its one message is that of the failed check.
C2_NoProjectNoEffect ==
    ~Exists(fs0, THEME) =>
        /\ pc \in {"node", "project", "exited"}
        /\ fs = fs0 /\ writes = <<>> /\ npmLog = <<>>
        /\ pc = "exited" =>
              /\ exitCode = 1
              /\ out \in {<<"node: not installed">>, <<"project: not a Shopify project">>}

\* a run without the marker file that passed the node check and was stopped by the project check
C2_Witness ==
    /\ ~Exists(fs0, THEME)
    /\ pc = "exited" /\ exitCode = 1
    /\ out = <<"project: not a Shopify project">>

\* C3: a non-zero exit code of an npm command is fatal at once: the failed
\* command is the last one run, the process has ended with status 1, the program
\* has written no file (config, CSS entry, package.json script, template, ignore
\* files), and every file but package.json is as the run found it.  "npm init -y"
\* is run only when package.json was absent, and no command is run twice.
C3_NpmFailureFatal ==
    /\ \A i \in DOMAIN npmLog :
          /\ npmLog[i].cmd = NpmInitCmd => i = 1 /\ ~Exists(fs0, PKG)
          /\ npmLog[i].code # 0 =>
                /\ i = Len(npmLog)
                /\ pc = "exited" /\ exitCode = 1
                /\ writes = <<>>
                /\ \A p \in Paths \ {PKG} : fs[p] = fs0[p]
                /\ fs[PKG] \in {fs0[PKG], <<NpmInitManifest>>}
    /\ \A i, j \in DOMAIN npmLog : npmLog[i].cmd = npmLog[j].cmd => i = j

\* "npm init -y" succeeded and the dependency install then failed
C3_Witness ==
    /\ Len(npmLog) = 2
    /\ npmLog[1].cmd = NpmInitCmd /\ npmLog[1].code = 0
    /\ npmLog[2].code # 0
    /\ pc = "exited" /\ exitCode = 1

\* a call of createGitIgnore / createShopifyIgnore has returned
IgnoreReturned == pc \in {"returnedGit", "returnedShopify"}

\* the file and the required lines of the function that was called
IgnorePath == IF pc = "returnedGit" THEN GITIGNORE ELSE SHOPIFYIGNORE

IgnoreLines == IF pc = "returnedGit" THEN GitLines ELSE ShopifyLines

\* the required lines that are not a substring of content
MissingLines(content, lines) == {k \in 1..Len(lines) : ~Includes(content, lines[k])}

\* C4: createGitIgnore / createShopifyIgnore called on an existing file that holds
\* each of its five required lines as a substring writes and appends nothing: the
\* file (and the rest of the directory) is as before the call.
C4_CompleteIgnoreUnchanged ==
    (/\ IgnoreReturned
     /\ Exists(fs0, IgnorePath)
     /\ MissingLines(Read(fs0, IgnorePath), IgnoreLines) = {})
    => fs = fs0 /\ writes = <<>> /\ out = <<"ignore: already exists">>

\* a file that holds every required line, one of them only inside a longer entry,
\* and does not hold the block
C4_Witness ==
    /\ IgnoreReturned
    /\ Exists(fs0, IgnorePath)
    /\ MissingLines(Read(fs0, IgnorePath), IgnoreLines) = {}
    /\ ~Includes(Read(fs0, IgnorePath), Block(IgnoreLines))
    /\ \E k \in 1..5 : ~Includes(Read(fs0, IgnorePath), IgnoreLines[k] \o <<"\n">>)

\* C5: called on an existing file that lacks exactly one required line, the
\* function appends the whole block: the file is the old content followed by the
\* block, written by one append, and every line that was present occurs at least twice.
C5_OneMissingAppendsBlock ==
    (/\ IgnoreReturned
     /\ Exists(fs0, IgnorePath)
     /\ Cardinality(MissingLines(Read(fs0, IgnorePath), IgnoreLines)) = 1)
    => /\ fs[IgnorePath] = <<Read(fs0, IgnorePath) \o Block(IgnoreLines)>>
       /\ writes = <<IgnorePath>>
       /\ \A k \in 1..Len(IgnoreLines) :
             Includes(Read(fs0, IgnorePath), IgnoreLines[k])
                => Count(Read(fs, IgnorePath), IgnoreLines[k]) >= 2

\* a file with four of the five lines, each exactly once, after the call
C5_Witness ==
    /\ IgnoreReturned
    /\ Exists(fs0, IgnorePath)
    /\ Cardinality(MissingLines(Read(fs0, IgnorePath), IgnoreLines)) = 1
    /\ \A k \in 1..5 : Count(Read(fs0, IgnorePath), IgnoreLines[k]) <= 1
    /\ out = <<"ignore: already exists", "ignore: updating", "ignore: updated">>

\* a call of addTailwindToThemeLiquid on an existing template has returned
ThemeReturned == pc = "returned" /\ Exists(fs0, THEME)

\* C6: when the template already holds the link fragment of the version, the call
\* takes the already-exists branch and does not write: the file is the same
\* afterwards, however many times the fragment occurs in it.
C6_LinkPresentUnchanged ==
    (ThemeReturned /\ Includes(Read(fs0, THEME), LinkFragment(variant, version)))
    => fs = fs0 /\ writes = <<>> /\ out = <<"theme: link already exists">>

\* a template that holds the bare fragment twice (not the inserted linkTag of index.js)
C6_Witness ==
    /\ ThemeReturned
    /\ variant = "index"
    /\ Count(Read(fs0, THEME), LinkFragment(variant, version)) = 2
    /\ ~Includes(Read(fs0, THEME), LinkTag(variant, version))
    /\ fs = fs0

\* C7: when the template holds "</head>" and not the fragment, the call writes the
\* original with linkTag put right before the first "</head>": the characters
\* before and after are the original ones, in order, and the fragment then
\* occurs exactly once.
C7_LinkInsertedBeforeHead ==
    (/\ ThemeReturned
     /\ Includes(Read(fs0, THEME), HeadClose)
     /\ ~Includes(Read(fs0, THEME), LinkFragment(variant, version)))
    => LET old == Read(fs0, THEME)
           new == Read(fs, THEME)
           tag == LinkTag(variant, version)
       IN  /\ writes = <<THEME>>
           /\ \E i \in 0..(Len(old) - Len(HeadClose)) :
                 /\ SubSeq(old, i + 1, i + Len(HeadClose)) = HeadClose
                 /\ \A j \in 0..(i - 1) : SubSeq(old, j + 1, j + Len(HeadClose)) # HeadClose
                 /\ new = SubSeq(old, 1, i) \o tag \o SubSeq(old, i + 1, Len(old))
                 /\ SubSeq(new, i + Len(tag) + 1, i + Len(tag) + Len(HeadClose)) = HeadClose
           /\ Count(new, LinkFragment(variant, version)) = 1
           /\ \A p \in Paths \ {THEME} : fs[p] = fs0[p]

\* a template with two "</head>", text before the first, and the start of a fragment in it
C7_Witness ==
    /\ ThemeReturned
    /\ Count(Read(fs0, THEME), HeadClose) = 2
    /\ IndexOf(Read(fs0, THEME), HeadClose) > 0
    /\ Includes(Read(fs0, THEME), LinkOpen)
    /\ ~Includes(Read(fs0, THEME), LinkFragment(variant, version))
    /\ out = <<"theme: link added">>

\* the run went through installTailwindCSS of index.js / part_001 or installTailwindV3
InstalledV3 == pc = "exited" /\ exitCode = 0 /\ version = "3"

\* the run went through installTailwindV4
InstalledV4 == pc = "exited" /\ exitCode = 0 /\ version = "4"

\* C8 as stated: an install leaves every generated file that existed (tailwind.config.js,
\* tailwind-config.css, assets/tailwind-config.css) with the content it had.
C8_GeneratedFilesKept ==
    \A p \in {CONFIG, CSS, ASSETS_CSS} : Exists(fs0, p) => fs[p] = fs0[p]

\* C8, amended: only tailwind-config.css is written when absent and left alone when
\* it exists.  tailwind.config.js (v3 installs) and assets/tailwind-config.css
\* (v4 installs) are written unconditionally: after the install they hold the
\* fixed template whatever they held before.
C8_OnlyCssEntryKept ==
    /\ Exists(fs0, CSS) => fs[CSS] = fs0[CSS] /\ CSS \notin Range(writes)
    /\ InstalledV3 =>
          /\ ~Exists(fs0, CSS) => fs[CSS] = <<CssTemplateV3>>
          /\ fs[CONFIG] = <<ConfigTemplate>> /\ CONFIG \in Range(writes)
          /\ fs[ASSETS_CSS] = fs0[ASSETS_CSS]
    /\ InstalledV4 =>
          /\ fs[ASSETS_CSS] = <<CssTemplateV4>> /\ ASSETS_CSS \in Range(writes)
          /\ fs[CONFIG] = fs0[CONFIG] /\ fs[CSS] = fs0[CSS]

\* a v3 install on a directory whose tailwind.config.js and tailwind-config.css
\* both held the user's text
C8_Witness ==
    /\ InstalledV3
    /\ fs0[CONFIG] = <<UserText>> /\ fs0[CSS] = <<UserText>>
    /\ fs[CONFIG] = <<ConfigTemplate>> /\ fs[CSS] = <<UserText>>

\* the build-script step of this run has been taken
ScriptStepDone == pkgPre # <<>>

\* what C9 holds in every variant: scripts is a mapping afterwards, the other
\* script entries and the other manifest keys keep their values
OtherEntriesKept ==
    LET before == JsonParse(pkgPre[1])
        after == JsonParse(Read(fs, PKG))
        old == IF before.scripts.kind = "object" THEN before.scripts.entries ELSE NoEntries
    IN  /\ after.name = before.name
        /\ after.devDependencies = before.devDependencies
        /\ after.scripts.kind = "object"
        /\ DOMAIN after.scripts.entries \ {"tailwind"} = DOMAIN old \ {"tailwind"}
        /\ \A k \in DOMAIN old \ {"tailwind"} : after.scripts.entries[k] = old[k]

\* scripts.tailwind holds the command of the call site and package.json was rewritten
ScriptSet ==
    /\ "tailwind" \in DOMAIN ScriptsOf(fs).entries
    /\ ScriptsOf(fs).entries["tailwind"] = BuildCommand(variant, version)
    /\ Read(fs, PKG).fmt = "indent2"
    /\ PKG \in Range(writes)

\* package.json was not written by the program and is as the step read it
ScriptKept == fs[PKG] = pkgPre /\ PKG \notin Range(writes)

FreshIgnoreReturned == IgnoreReturned /\ ~Exists(fs0, IgnorePath)

\* C10 as stated: the file created by the first step receives the block a second
\* time in the same call.  The functions are deterministic, so a call on an
\* absent file has one outcome, and the outcome the claim says is reachable is:
\* the file holds the block twice.
C10_FreshFileBlockTwice ==
    FreshIgnoreReturned => Count(Read(fs, IgnorePath), Block(IgnoreLines)) = 2

\* C10, amended: an absent file is created with the block (a newline, the five
\* lines, the closing indent); it is then read again and holds every required
\* line, so nothing is appended: one write, and the file holds the block once.
C10_FreshFileBlockOnce ==
    FreshIgnoreReturned =>
        /\ fs[IgnorePath] = <<Block(IgnoreLines)>>
        /\ Head(Read(fs, IgnorePath)) = "\n"
        /\ Count(Read(fs, IgnorePath), Block(IgnoreLines)) = 1
        /\ writes = <<IgnorePath>>
        /\ out = <<"ignore: creating", "ignore: created">>
        /\ \A p \in Paths \ {IgnorePath} : fs[p] = fs0[p]

\* .shopifyignore was absent and createShopifyIgnore has returned
C10_Witness ==
    /\ FreshIgnoreReturned
    /\ pc = "returnedShopify"
    /\ MissingLines(Read(fs, SHOPIFYIGNORE), ShopifyLines) = {}

\* a call on an existing template that held neither "</head>" nor the fragment has returned
NoHeadReturned ==
    /\ ThemeReturned
    /\ ~Includes(Read(fs0, THEME), HeadClose)
    /\ ~Includes(Read(fs0, THEME), LinkFragment(variant, version))

\* what the call writes with headEndIndex = -1, and that nothing else changes:
\* linkTag right before the last character (linkTag alone for an empty file),
\* every original character kept in order, the fragment exactly once
InsertedBeforeLastChar ==
    LET old == Read(fs0, THEME)
        new == Read(fs, THEME)
        tag == LinkTag(variant, version)
    IN  /\ writes = <<THEME>>
        /\ out = <<"theme: link added">>
        /\ new = IF old = <<>> THEN tag
                 ELSE SubSeq(old, 1, Len(old) - 1) \o tag \o <<old[Len(old)]>>
        /\ Count(new, LinkFragment(variant, version)) = 1
        /\ \A p \in Paths \ {THEME} : fs[p] = fs0[p]

\* C11 as stated: without "</head>" and without the fragment the call does not
\* fail or skip; it writes the original with linkTag right before the last
\* character, and in a non-empty file the fragment does not start at position 0.
C11_NoHeadNeverAtStart ==
    NoHeadReturned =>
        /\ InsertedBeforeLastChar
        /\ Read(fs0, THEME) # <<>>
              => 0 \notin Occurrences(Read(fs, THEME), LinkFragment(variant, version))

\* C11, amended: the same, but the fragment is kept off position 0 only in a file
\* of two or more characters.  In a one-character file linkTag comes before the
\* only character, so the fragment starts where it starts in linkTag: at
\* position 0 in part_000, whose linkTag is the bare fragment.
C11_NoHeadBeforeLastChar ==
    NoHeadReturned =>
        /\ InsertedBeforeLastChar
        /\ Len(Read(fs0, THEME)) >= 2
              => 0 \notin Occurrences(Read(fs, THEME), LinkFragment(variant, version))
        /\ Len(Read(fs0, THEME)) = 1
              => Occurrences(Read(fs, THEME), LinkFragment(variant, version))
                    = Occurrences(LinkTag(variant, version), LinkFragment(variant, version))

\* a template of several characters that starts like a fragment and has no "</head>"
C11_Witness ==
    /\ NoHeadReturned
    /\ Len(Read(fs0, THEME)) >= Len(LinkOpen)
    /\ SubSeq(Read(fs0, THEME), 1, Len(LinkOpen)) = LinkOpen
    /\ Read(fs, THEME)[Len(Read(fs, THEME))] = "}"
    /\ out = <<"theme: link added">>

====
